---- MODULE Spec2Model ----
(***************************************************************************)
(* Publicly verifiable secret sharing (share/pvss/pvss.go), key pairs,     *)
(* Ed25519 key formatting and the ElGamal example of the kyber toolbox.    *)
(*                                                                         *)
(* The group is the prime-order cyclic group of Order elements.  A point   *)
(* is written as its multiple of the standard base G (G is 1, the          *)
(* identity is 0), so Mul, Add and Sub are arithmetic modulo Order.        *)
(***************************************************************************)
EXTENDS Integers, Sequences, FiniteSets, TLC

VARIABLES
    seed,       \* the random stream of the run (random.Stream)
    x,          \* trustees' private keys, x[i]
    X,          \* trustees' public keys, X[i] = x[i]*G
    H,          \* the base point of the commitments
    dealt,      \* TRUE once EncShares has run
    secret,     \* the scalar given to EncShares
    thr,        \* the threshold t given to EncShares
    encShares,  \* the encrypted shares as published ([]*PubVerShare)
    pubPoly,    \* the commitment polynomial returned by EncShares
    tampered,   \* position of the encrypted share altered in transit, or 0
    decShares,  \* decShares[i]: <<>> (nil) or <<share>> released by trustee i
    forged,     \* position of the decrypted share altered after release, or 0
    pc,         \* "idle" or "called": a call has returned into ret
    ret,        \* arguments and results of the last call
    kp,         \* the KeyPair object
    genArg,     \* the suite given to the last NewKeyPair or Gen
    ids,        \* the strings returned by PubId since the last Gen
    key,        \* the scalar returned by the last NewKey, as 32 bytes
    eg          \* the ElGamal example: keys, message, ciphertext, output

pvssVars == <<seed, x, X, H, dealt, secret, thr, encShares, pubPoly,
              tampered, decShares, forged, pc, ret>>
restVars == <<kp, genArg, ids, key, eg>>
vars == <<seed, x, X, H, dealt, secret, thr, encShares, pubPoly,
          tampered, decShares, forged, pc, ret, kp, genArg, ids, key, eg>>

----------------------------------------------------------------------------
(* Bounds of the model.                                                    *)

\* number n of trustees
NumTrustees == 3

\* the random streams of a run are numbered 0..MaxSeed
MaxSeed == 1

Seeds == 0..MaxSeed
Trustees == 1..NumTrustees

----------------------------------------------------------------------------
(* The group contract: scalars of the field F, points of the group.        *)

Order == 7

Scalars == 0..(Order - 1)
Points == 0..(Order - 1)

\* suite.Point().Base()
Base == 1

\* suite.Point().Null()
Identity == 0

ScalarAdd(a, b) == (a + b) % Order
ScalarSub(a, b) == (a + Order - b) % Order
ScalarMul(a, b) == (a * b) % Order

RECURSIVE ScalarPow(_, _)
ScalarPow(a, e) == IF e = 0 THEN 1 ELSE ScalarMul(a, ScalarPow(a, e - 1))

\* a^(q-2) = a^-1 in the prime field
ScalarInv(a) == ScalarPow(a, Order - 2)

ScalarDiv(a, b) == ScalarMul(a, ScalarInv(b))

\* SetInt64: an integer as a field element
ScalarSetInt64(i) == i % Order

\* suite.Point().Mul(P, s): P*s
PointMul(P, s) == (P * s) % Order
PointAdd(P, Q) == (P + Q) % Order
PointSub(P, Q) == (P + Order - Q) % Order

\* The k-th scalar drawn from random stream sd (Scalar().Pick(stream)).
Rnd(sd, k) == (sd * sd + (2 * sd + 3) * k + k * k + 1) % Order

\* A draw repeated until it is not zero (private keys, base points).
NonZero(s) == IF s = 0 THEN 1 ELSE s

----------------------------------------------------------------------------
(* The polynomial engine (package share).                                  *)

\* NewPriPoly(suite, t, s, rand): c[1] = s is the secret, the other t-1
\* coefficients are drawn from the stream starting at position k0.
NewPriPoly(t, s, sd, k0) ==
    [j \in 1..t |-> IF j = 1 THEN s ELSE Rnd(sd, k0 + j - 2)]

\* Horner evaluation of the private polynomial at xi, from coefficient j down
RECURSIVE PriHorner(_, _, _)
PriHorner(coeffs, j, xi) ==
    IF j = Len(coeffs) THEN coeffs[j]
    ELSE ScalarAdd(ScalarMul(PriHorner(coeffs, j + 1, xi), xi), coeffs[j])

\* PriPoly.Eval(i): the private share of index i
PriPolyEval(coeffs, i) ==
    [I |-> i, V |-> PriHorner(coeffs, 1, ScalarSetInt64(i))]

\* PriPoly.Shares(n)
PriPolyShares(coeffs, n) == [i \in 1..n |-> PriPolyEval(coeffs, i)]

\* PriPoly.Commit(B)
PriPolyCommit(coeffs, B) ==
    [B |-> B, C |-> [j \in 1..Len(coeffs) |-> PointMul(B, coeffs[j])]]

RECURSIVE PubHorner(_, _, _)
PubHorner(commits, j, xi) ==
    IF j = Len(commits) THEN commits[j]
    ELSE PointAdd(PointMul(PubHorner(commits, j + 1, xi), xi), commits[j])

\* PubPoly.Eval(i): the public share of index i
PubPolyEval(pub, i) ==
    [I |-> i, V |-> PubHorner(pub.C, 1, ScalarSetInt64(i))]

----------------------------------------------------------------------------
(* Lagrange interpolation in the exponent (share.RecoverCommit).           *)

\* Duplicates are dropped by index, the first occurrence kept.
RECURSIVE DedupShares(_, _, _)
DedupShares(shares, j, acc) ==
    IF j > Len(shares) THEN acc
    ELSE IF \E k \in 1..Len(acc) : acc[k].I = shares[j].I
         THEN DedupShares(shares, j + 1, acc)
         ELSE DedupShares(shares, j + 1, Append(acc, shares[j]))

\* lambda_i(0) = prod_{j # i} (-x_j) / (x_i - x_j), over the chosen shares
RECURSIVE LagrangeBasis(_, _, _)
LagrangeBasis(chosen, i, j) ==
    IF j > Len(chosen) THEN 1
    ELSE IF j = i THEN LagrangeBasis(chosen, i, j + 1)
    ELSE LET xi == ScalarSetInt64(chosen[i].I)
             xj == ScalarSetInt64(chosen[j].I)
         IN  ScalarMul(ScalarDiv(ScalarSub(0, xj), ScalarSub(xi, xj)),
                       LagrangeBasis(chosen, i, j + 1))

\* sum_i lambda_i(0) * V_i in the group
RECURSIVE LagrangeSum(_, _)
LagrangeSum(chosen, i) ==
    IF i > Len(chosen) THEN Identity
    ELSE PointAdd(PointMul(chosen[i].V, LagrangeBasis(chosen, i, 1)),
                  LagrangeSum(chosen, i + 1))

\* Some error definitions.
NoError == "nil"
errorTooFewShares == "errorTooFewShares"
errorDifferentLengths == "errorDifferentLengths"
errorEncVerification == "errorEncVerification"
errorDecVerification == "errorDecVerification"

\* RecoverCommit counting and taking the shares as given, repeated indices
\* included
RecoverCommitNoDedup(shares, t, n) ==
    IF Len(shares) < t
    THEN [point |-> <<>>, err |-> errorTooFewShares]
    ELSE [point |-> <<LagrangeSum(SubSeq(shares, 1, t), 1)>>,
          err |-> NoError]

\* share.RecoverCommit(suite, shares, t, n): the first t shares of distinct
\* index, in the order given; a nil point is <<>>.
RecoverCommit(shares, t, n) ==
    LET distinct == DedupShares(shares, 1, <<>>)
    IN  IF Len(distinct) < t
        THEN [point |-> <<>>, err |-> errorTooFewShares]
        ELSE [point |-> <<LagrangeSum(SubSeq(distinct, 1, t), 1)>>,
              err |-> NoError]

----------------------------------------------------------------------------
(* Proofs of equality of discrete logarithms (package proof).              *)

\* Hash(vG || vH): the digest of the transcript.  The hash is collision
\* free: two transcripts have the same digest only if they are equal.
Hash(vG, vH) == vG * Order + vH

\* H_q: the digest as a scalar.  A digest is never taken to the zero scalar
\* (in the 252-bit field that has probability 1/q).
Hq(d) == 1 + (d % (Order - 1))

\* NewDLEQProof(suite, G, H, x) with the nonce v drawn from the stream:
\* the proof and the two points xG, xH.
NewDLEQProof(G, Hb, xs, v) ==
    LET vG == PointMul(G, v)
        vH == PointMul(Hb, v)
        c == Hash(vG, vH)
        r == ScalarSub(v, ScalarMul(Hq(c), xs))
    IN  [proof |-> [C |-> c, R |-> r, VG |-> vG, VH |-> vH],
         xG |-> PointMul(G, xs), xH |-> PointMul(Hb, xs), err |-> NoError]

\* NewDLEQProofBatch(suite, G, H, secrets): one proof, with its own nonce
\* and challenge, per position; the nonces are stream positions k0, k0+1, ...
NewDLEQProofBatch(Gs, Hs, secrets, sd, k0) ==
    IF Len(Gs) # Len(Hs) \/ Len(Hs) # Len(secrets)
    THEN [proofs |-> <<>>, xG |-> <<>>, xH |-> <<>>,
          err |-> errorDifferentLengths]
    ELSE LET one(i) == NewDLEQProof(Gs[i], Hs[i], secrets[i],
                                    Rnd(sd, k0 + i - 1))
         IN  [proofs |-> [i \in 1..Len(Gs) |-> one(i).proof],
              xG |-> [i \in 1..Len(Gs) |-> one(i).xG],
              xH |-> [i \in 1..Len(Gs) |-> one(i).xH],
              err |-> NoError]

\* DLEQProof.Verify(suite, G, H, xG, xH): TRUE iff the proof is accepted
DLEQVerify(p, G, Hb, xG, xH) ==
    LET c == Hq(p.C)
        vG == PointAdd(PointMul(G, p.R), PointMul(xG, c))
        vH == PointAdd(PointMul(Hb, p.R), PointMul(xH, c))
    IN  Hash(vG, vH) = p.C

----------------------------------------------------------------------------
(* Package pvss.  A *PubVerShare is <<>> (nil) or <<share>>; a slice that   *)
(* was never appended to is nil, <<>>.                                     *)

\* PubVerShare{S: PubShare{I, V}, P: DLEQProof}
PubVerShare(i, V, P) == [S |-> [I |-> i, V |-> V], P |-> P]

\* EncShares(suite, H, X, secret, t) drawing from stream sd at position k0:
\* the t-1 coefficients first, then one nonce per proof.
EncShares(Hb, Xs, s, t, sd, k0) ==
    LET n == Len(Xs)
        priPoly == NewPriPoly(t, s, sd, k0)
        priShares == PriPolyShares(priPoly, n)
        pub == PriPolyCommit(priPoly, Hb)
        indices == [i \in 1..n |-> priShares[i].I]
        values == [i \in 1..n |-> priShares[i].V]
        HS == [i \in 1..n |-> Hb]
        batch == NewDLEQProofBatch(HS, Xs, values, sd, k0 + t - 1)
    IN  IF batch.err # NoError
        THEN [encShares |-> <<>>, pubPoly |-> <<>>, err |-> batch.err]
        ELSE [encShares |-> [i \in 1..n |->
                                PubVerShare(indices[i], batch.xH[i],
                                            batch.proofs[i])],
              pubPoly |-> <<pub>>, err |-> NoError]

\* VerifyEncShare with the proof's error dropped
VerifyEncShareAlwaysOk(Hb, Xi, sH, encShare) == NoError

\* VerifyEncShare(suite, H, X, sH, encShare): the error returned
VerifyEncShare(Hb, Xi, sH, encShare) ==
    IF ~DLEQVerify(encShare.P, Hb, Xi, sH, encShare.S.V)
    THEN errorEncVerification
    ELSE NoError

\* The loop of VerifyEncShareBatch from position i on; calls counts the
\* single-share verifications made.
RECURSIVE VerifyEncShareLoop(_, _, _, _, _, _)
VerifyEncShareLoop(Hb, Xs, sHs, encs, i, acc) ==
    IF i > Len(Xs) THEN acc
    ELSE IF VerifyEncShare(Hb, Xs[i], sHs[i], encs[i]) = NoError
         THEN VerifyEncShareLoop(Hb, Xs, sHs, encs, i + 1,
                  [K |-> Append(acc.K, Xs[i]), E |-> Append(acc.E, encs[i]),
                   calls |-> acc.calls + 1])
         ELSE VerifyEncShareLoop(Hb, Xs, sHs, encs, i + 1,
                  [acc EXCEPT !.calls = acc.calls + 1])

\* VerifyEncShareBatch appending every key, valid share or not
VerifyEncShareBatchAllKeys(Hb, Xs, sHs, encs) ==
    IF Len(Xs) # Len(sHs) \/ Len(sHs) # Len(encs)
    THEN [K |-> <<>>, E |-> <<>>, err |-> errorDifferentLengths, calls |-> 0]
    ELSE LET good == VerifyEncShareLoop(Hb, Xs, sHs, encs, 1,
                         [K |-> <<>>, E |-> <<>>, calls |-> 0])
         IN  [K |-> Xs, E |-> good.E, err |-> NoError, calls |-> good.calls]

\* VerifyEncShareBatch(suite, H, X, sH, encShares)
VerifyEncShareBatch(Hb, Xs, sHs, encs) ==
    IF Len(Xs) # Len(sHs) \/ Len(sHs) # Len(encs)
    THEN [K |-> <<>>, E |-> <<>>, err |-> errorDifferentLengths, calls |-> 0]
    ELSE LET good == VerifyEncShareLoop(Hb, Xs, sHs, encs, 1,
                         [K |-> <<>>, E |-> <<>>, calls |-> 0])
         IN  [K |-> good.K, E |-> good.E, err |-> NoError,
              calls |-> good.calls]

\* DecShare multiplying by x instead of its inverse
DecShareNoInv(Hb, Xi, sH, xi, encShare, v) ==
    IF VerifyEncShare(Hb, Xi, sH, encShare) # NoError
    THEN [share |-> <<>>, err |-> VerifyEncShare(Hb, Xi, sH, encShare)]
    ELSE LET V == PointMul(encShare.S.V, xi)
             pr == NewDLEQProof(Base, V, xi, v)
         IN  [share |-> <<PubVerShare(encShare.S.I, V, pr.proof)>>,
              err |-> NoError]

\* DecShare decrypting without verifying the encrypted share first
DecShareNoVerify(Hb, Xi, sH, xi, encShare, v) ==
    LET V == PointMul(encShare.S.V, ScalarInv(xi))
        pr == NewDLEQProof(Base, V, xi, v)
    IN  [share |-> <<PubVerShare(encShare.S.I, V, pr.proof)>>,
         err |-> NoError]

\* DecShare(suite, H, X, sH, x, encShare) with the proof's nonce v
DecShare(Hb, Xi, sH, xi, encShare, v) ==
    IF VerifyEncShare(Hb, Xi, sH, encShare) # NoError
    THEN [share |-> <<>>, err |-> VerifyEncShare(Hb, Xi, sH, encShare)]
    ELSE LET G == Base
             V == PointMul(encShare.S.V, ScalarInv(xi))
             pr == NewDLEQProof(G, V, xi, v)
         IN  IF pr.err # NoError
             THEN [share |-> <<>>, err |-> pr.err]
             ELSE [share |-> <<PubVerShare(encShare.S.I, V, pr.proof)>>,
                   err |-> NoError]

\* The loop of DecShareBatch from position i on; the nonce of position i is
\* stream position k0 + i - 1.
RECURSIVE DecShareLoop(_, _, _, _, _, _, _, _, _)
DecShareLoop(Hb, Xs, sHs, xi, encs, sd, k0, i, acc) ==
    IF i > Len(encs) THEN acc
    ELSE LET ds == DecShare(Hb, Xs[i], sHs[i], xi, encs[i],
                            Rnd(sd, k0 + i - 1))
         IN  IF ds.err = NoError
             THEN DecShareLoop(Hb, Xs, sHs, xi, encs, sd, k0, i + 1,
                      [K |-> Append(acc.K, Xs[i]),
                       E |-> Append(acc.E, encs[i]),
                       D |-> Append(acc.D, ds.share[1]),
                       calls |-> acc.calls + 1])
             ELSE DecShareLoop(Hb, Xs, sHs, xi, encs, sd, k0, i + 1,
                      [acc EXCEPT !.calls = acc.calls + 1])

\* DecShareBatch with the length check on X and sH alone, the loop
\* stopping at the shortest slice
DecShareBatchHalfCheck(Hb, Xs, sHs, xi, encs, sd, k0) ==
    IF Len(Xs) # Len(sHs)
    THEN [K |-> <<>>, E |-> <<>>, D |-> <<>>,
          err |-> errorDifferentLengths, calls |-> 0]
    ELSE LET good == DecShareLoop(Hb, Xs, sHs, xi,
                         SubSeq(encs, 1, IF Len(encs) < Len(Xs)
                                         THEN Len(encs) ELSE Len(Xs)),
                         sd, k0, 1,
                         [K |-> <<>>, E |-> <<>>, D |-> <<>>, calls |-> 0])
         IN  [K |-> good.K, E |-> good.E, D |-> good.D, err |-> NoError,
              calls |-> good.calls]

\* DecShareBatch(suite, H, X, sH, x, encShares)
DecShareBatch(Hb, Xs, sHs, xi, encs, sd, k0) ==
    IF Len(Xs) # Len(sHs) \/ Len(sHs) # Len(encs)
    THEN [K |-> <<>>, E |-> <<>>, D |-> <<>>,
          err |-> errorDifferentLengths, calls |-> 0]
    ELSE LET good == DecShareLoop(Hb, Xs, sHs, xi, encs, sd, k0, 1,
                         [K |-> <<>>, E |-> <<>>, D |-> <<>>, calls |-> 0])
         IN  [K |-> good.K, E |-> good.E, D |-> good.D, err |-> NoError,
              calls |-> good.calls]

\* VerifyDecShare with the public key and the decrypted point exchanged
VerifyDecShareSwapped(G, Xi, encShare, decShare) ==
    IF ~DLEQVerify(decShare.P, G, Xi, decShare.S.V, encShare.S.V)
    THEN errorDecVerification
    ELSE NoError

\* VerifyDecShare(suite, G, X, encShare, decShare): the error returned
VerifyDecShare(G, Xi, encShare, decShare) ==
    IF ~DLEQVerify(decShare.P, G, decShare.S.V, Xi, encShare.S.V)
    THEN errorDecVerification
    ELSE NoError

RECURSIVE VerifyDecShareLoop(_, _, _, _, _, _)
VerifyDecShareLoop(G, Xs, encs, decs, i, acc) ==
    IF i > Len(Xs) THEN acc
    ELSE IF VerifyDecShare(G, Xs[i], encs[i], decs[i]) = NoError
         THEN VerifyDecShareLoop(G, Xs, encs, decs, i + 1,
                  [D |-> Append(acc.D, decs[i]), calls |-> acc.calls + 1])
         ELSE VerifyDecShareLoop(G, Xs, encs, decs, i + 1,
                  [acc EXCEPT !.calls = acc.calls + 1])

\* VerifyDecShareBatch(suite, G, X, encShares, decShares)
VerifyDecShareBatch(G, Xs, encs, decs) ==
    IF Len(Xs) # Len(encs) \/ Len(encs) # Len(decs)
    THEN [D |-> <<>>, err |-> errorDifferentLengths, calls |-> 0]
    ELSE LET good == VerifyDecShareLoop(G, Xs, encs, decs, 1,
                         [D |-> <<>>, calls |-> 0])
         IN  [D |-> good.D, err |-> NoError, calls |-> good.calls]

\* RecoverSecret accepting one share fewer than the threshold
RecoverSecretOffByOne(G, Xs, encs, decs, t, n) ==
    LET b == VerifyDecShareBatch(G, Xs, encs, decs)
    IN  IF b.err # NoError
        THEN [point |-> <<>>, err |-> b.err, shares |-> <<>>,
              interp |-> FALSE, calls |-> b.calls]
        ELSE IF Len(b.D) < t - 1
        THEN [point |-> <<>>, err |-> errorTooFewShares, shares |-> <<>>,
              interp |-> FALSE, calls |-> b.calls]
        ELSE LET shares == [j \in 1..Len(b.D) |-> b.D[j].S]
                 rc == RecoverCommit(shares, t, n)
             IN  [point |-> rc.point, err |-> rc.err, shares |-> shares,
                  interp |-> TRUE, calls |-> b.calls]

\* RecoverSecret giving up with DecVerification as soon as one decrypted
\* share is rejected
RecoverSecretStrict(G, Xs, encs, decs, t, n) ==
    LET b == VerifyDecShareBatch(G, Xs, encs, decs)
    IN  IF b.err # NoError
        THEN [point |-> <<>>, err |-> b.err, shares |-> <<>>,
              interp |-> FALSE, calls |-> b.calls]
        ELSE IF Len(b.D) < Len(decs)
        THEN [point |-> <<>>, err |-> errorDecVerification, shares |-> <<>>,
              interp |-> FALSE, calls |-> b.calls]
        ELSE IF Len(b.D) < t
        THEN [point |-> <<>>, err |-> errorTooFewShares, shares |-> <<>>,
              interp |-> FALSE, calls |-> b.calls]
        ELSE LET shares == [j \in 1..Len(b.D) |-> b.D[j].S]
                 rc == RecoverCommit(shares, t, n)
             IN  [point |-> rc.point, err |-> rc.err, shares |-> shares,
                  interp |-> TRUE, calls |-> b.calls]

\* RecoverSecret(suite, G, X, encShares, decShares, t, n).  shares is the
\* slice handed to share.RecoverCommit, interp whether that call was made,
\* calls the number of decrypted shares verified.
RecoverSecret(G, Xs, encs, decs, t, n) ==
    LET b == VerifyDecShareBatch(G, Xs, encs, decs)
    IN  IF b.err # NoError
        THEN [point |-> <<>>, err |-> b.err, shares |-> <<>>,
              interp |-> FALSE, calls |-> b.calls]
        ELSE IF Len(b.D) < t
        THEN [point |-> <<>>, err |-> errorTooFewShares, shares |-> <<>>,
              interp |-> FALSE, calls |-> b.calls]
        ELSE LET shares == [j \in 1..Len(b.D) |-> b.D[j].S]
                 rc == RecoverCommit(shares, t, n)
             IN  [point |-> rc.point, err |-> rc.err, shares |-> shares,
                  interp |-> TRUE, calls |-> b.calls]

----------------------------------------------------------------------------
(* Ed25519 scalars as 32 bytes, little endian (suiteEd25519.NewKey).       *)

\* The order of the Ed25519 group, 2^252 + 27742317777372353535851937790883648493
primeOrder ==
    <<237, 211, 245, 92, 26, 99, 18, 88, 214, 156, 247, 162, 222, 249, 222,
      20, 0, 0, 0, 0, 0, 0, 0, 0, 0, 0, 0, 0, 0, 0, 0, 16>>

RECURSIVE BitAnd(_, _)
BitAnd(a, b) ==
    IF a = 0 \/ b = 0 THEN 0
    ELSE (a % 2) * (b % 2) + 2 * BitAnd(a \div 2, b \div 2)

RECURSIVE BitOr(_, _)
BitOr(a, b) ==
    IF a = 0 THEN b
    ELSE IF b = 0 THEN a
    ELSE (IF a % 2 = 1 \/ b % 2 = 1 THEN 1 ELSE 0)
         + 2 * BitOr(a \div 2, b \div 2)

\* a >= b for little-endian numbers, compared from byte i down
RECURSIVE GeqFrom(_, _, _)
GeqFrom(a, b, i) ==
    IF i = 0 THEN TRUE
    ELSE IF a[i] > b[i] THEN TRUE
    ELSE IF a[i] < b[i] THEN FALSE
    ELSE GeqFrom(a, b, i - 1)

\* a - b for little-endian numbers a >= b, from byte i up with a borrow
RECURSIVE SubFrom(_, _, _, _)
SubFrom(a, b, i, borrow) ==
    IF i > Len(a) THEN <<>>
    ELSE LET d == a[i] - b[i] - borrow
         IN  <<IF d < 0 THEN d + 256 ELSE d>>
             \o SubFrom(a, b, i + 1, IF d < 0 THEN 1 ELSE 0)

\* Scalar().SetBytes(b): the little-endian number b as a field element,
\* that is reduced modulo the group order; kept as its 32-byte encoding.
RECURSIVE ScalarSetBytes(_)
ScalarSetBytes(b) ==
    IF GeqFrom(b, primeOrder, Len(b))
    THEN ScalarSetBytes(SubFrom(b, primeOrder, 1, 0))
    ELSE b

\* Scalar().Pick(rand): the stream's bytes as a uniform field element
ScalarPickBytes(r) == ScalarSetBytes(r)

\* suiteEd25519.NewKey of package edwards25519; digest is the first 32
\* bytes of sha512.Sum512 of the 32 non-zero bytes read from the stream.
NewKeyEdwards25519(digest) ==
    LET s0 == [digest EXCEPT ![1] = BitAnd(@, 248)]
        s1 == [s0 EXCEPT ![32] = BitAnd(@, 63)]
        s2 == [s1 EXCEPT ![32] = BitOr(@, 64)]
    IN  ScalarSetBytes(s2)

\* suiteEd25519.NewKey of package curve25519; r is what the stream yields.
NewKeyCurve25519(r) == ScalarPickBytes(r)

\* The byte strings tried as digests and stream outputs: a first byte, a
\* last byte, and one value for the 30 bytes between.
FirstBytes == {0, 7, 165, 248, 255}
FillBytes == {0, 90, 255}
LastBytes == {0, 64, 127, 128, 255}
Pattern(b0, fill, b31) ==
    [i \in 1..32 |-> IF i = 1 THEN b0 ELSE IF i = 32 THEN b31 ELSE fill]
ByteStrings ==
    {Pattern(b0, fill, b31) :
        b0 \in FirstBytes, fill \in FillBytes, b31 \in LastBytes}

NoKey == [suite |-> "none", input |-> <<>>, secret |-> <<>>]

NewKeyEdwards25519Call(digest) ==
    /\ key' = [suite |-> "edwards25519", input |-> digest,
               secret |-> NewKeyEdwards25519(digest)]
    /\ UNCHANGED <<pvssVars, kp, genArg, ids, eg>>

NewKeyCurve25519Call(r) ==
    /\ key' = [suite |-> "curve25519", input |-> r,
               secret |-> NewKeyCurve25519(r)]
    /\ UNCHANGED <<pvssVars, kp, genArg, ids, eg>>

----------------------------------------------------------------------------
(* Package key: KeyPair.                                                   *)

\* PubId is called at most MaxPubIds times on one key pair
MaxPubIds == 3

Suites == {"edwards25519", "curve25519", "P256", "QR512"}

\* new(KeyPair)
NilKeyPair == [Suite |-> "nil", Public |-> <<>>, Secret |-> <<>>]

\* suite.NewKey(random) as an element of the model's field; r is what the
\* stream yields.  The edwards25519 suite formats the number (a multiple of
\* 8 with bit 6 of the last byte set) before SetBytes reduces it; the other
\* suites return Scalar().Pick(random).
SuiteNewKey(suite, r) ==
    IF suite = "edwards25519" THEN ScalarSetInt64(8 * r + 64) ELSE r

\* KeyPair.Gen without the multiplication: Public is the base point
GenNoMul(p, suite, r) ==
    [Suite |-> suite, Secret |-> <<SuiteNewKey(suite, r)>>,
     Public |-> <<Base>>]

\* (p *KeyPair) Gen(suite, random): the object after the call
Gen(p, suite, r) ==
    LET p1 == [p EXCEPT !.Suite = suite]
        p2 == [p1 EXCEPT !.Secret = <<SuiteNewKey(suite, r)>>]
    IN  [p2 EXCEPT !.Public = <<PointMul(Base, p2.Secret[1])>>]

\* NewKeyPair(suite)
NewKeyPair(suite, r) == Gen(NilKeyPair, suite, r)

\* Point.MarshalBinary(): the encoding of a point, two bytes in the model
PointMarshal(P) == <<(37 * P + 11) % 256, (P * P + 3) % 256>>

\* kyber.Sum(suite, buf): the suite's hash of buf, three bytes in the model
RECURSIVE HashFold(_, _, _)
HashFold(buf, i, k) ==
    IF i > Len(buf) THEN 17 * k
    ELSE ((i + k) * buf[i] + 31 * HashFold(buf, i + 1, k)) % 256

Sum(suite, buf) == [k \in 1..3 |-> HashFold(buf, 1, k) % 256]

\* The alphabet of base64.RawURLEncoding
URLAlphabet ==
    <<"A", "B", "C", "D", "E", "F", "G", "H", "I", "J", "K", "L", "M", "N",
      "O", "P", "Q", "R", "S", "T", "U", "V", "W", "X", "Y", "Z", "a", "b",
      "c", "d", "e", "f", "g", "h", "i", "j", "k", "l", "m", "n", "o", "p",
      "q", "r", "s", "t", "u", "v", "w", "x", "y", "z", "0", "1", "2", "3",
      "4", "5", "6", "7", "8", "9", "-", "_">>

\* base64.RawURLEncoding.EncodeToString of a three-byte string: four
\* characters, no padding
EncodeToString(h) ==
    <<URLAlphabet[(h[1] \div 4) + 1],
      URLAlphabet[((h[1] % 4) * 16 + (h[2] \div 16)) + 1],
      URLAlphabet[((h[2] % 16) * 4 + (h[3] \div 64)) + 1],
      URLAlphabet[(h[3] % 64) + 1]>>

\* (p *KeyPair) PubId(): the object after the call and the string returned
PubId(p) ==
    LET buf == PointMarshal(p.Public[1])
        hash == Sum(p.Suite, buf)
    IN  [p |-> p, out |-> EncodeToString(hash)]

NewKeyPairCall(suite, r) ==
    /\ kp' = NewKeyPair(suite, r)
    /\ genArg' = suite
    /\ ids' = <<>>
    /\ UNCHANGED <<pvssVars, key, eg>>

GenCall(suite, r) ==
    /\ kp' = Gen(kp, suite, r)
    /\ genArg' = suite
    /\ ids' = <<>>
    /\ UNCHANGED <<pvssVars, key, eg>>

PubIdCall ==
    /\ kp.Suite # "nil"
    /\ Len(ids) < MaxPubIds
    /\ kp' = PubId(kp).p
    /\ ids' = Append(ids, PubId(kp).out)
    /\ UNCHANGED <<pvssVars, genArg, key, eg>>

----------------------------------------------------------------------------
(* ElGamal encryption of a message embedded in a point (examples).         *)

\* messages are strings of at most MaxMsgLen symbols 0 or 1
MaxMsgLen == 2

\* number of symbols one point holds
EmbedLen == 1

errorData == "invalid embedded data length"

RECURSIVE SeqsOfLen(_, _)
SeqsOfLen(S, n) ==
    IF n = 0 THEN {<<>>}
    ELSE {Append(q, e) : q \in SeqsOfLen(S, n - 1), e \in S}

Messages == UNION {SeqsOfLen({0, 1}, n) : n \in 0..MaxMsgLen}

\* The encoding of a point (its coordinates) and the point of an encoding:
\* a bijection that has nothing to do with the point's logarithm.
PointCode(P) == (3 * P + 1) % Order
PointOfCode(c) == (5 * (c + Order - 1)) % Order

\* Point.Pick(data, rand): the encoding holds the embedded length (its
\* residue modulo 3) and above it the embedded symbol, or padding drawn
\* from the stream when nothing is embedded.
PointPick(data, r) ==
    LET dl == IF Len(data) > EmbedLen THEN EmbedLen ELSE Len(data)
        c == IF dl = 0 THEN 3 * (r % 3) ELSE dl + 3 * data[1]
    IN  [point |-> PointOfCode(c), remainder |-> SubSeq(data, dl + 1, Len(data))]

\* Point.Data(): the embedded data, or an error when the length read from
\* the encoding is more than a point holds
PointData(P) ==
    LET c == PointCode(P)
        dl == c % 3
    IN  IF dl > EmbedLen THEN [data |-> <<>>, err |-> errorData]
        ELSE IF dl = 0 THEN [data |-> <<>>, err |-> NoError]
        ELSE [data |-> <<c \div 3>>, err |-> NoError]

\* ElGamalEncrypt(group, pubkey, message): r and k are what the stream
\* yields for the padding and for the ephemeral key
ElGamalEncrypt(pubkey, message, r, k) ==
    LET pick == PointPick(message, r)
        M == pick.point
        K == PointMul(Base, k)
        S == PointMul(pubkey, k)
        C == PointAdd(S, M)
    IN  [K |-> K, C |-> C, remainder |-> pick.remainder]

\* ElGamalDecrypt adding the shared secret instead of subtracting it
ElGamalDecryptAdd(prikey, K, C) ==
    LET S == PointMul(K, prikey)
        M == PointAdd(C, S)
    IN  [message |-> PointData(M).data, err |-> PointData(M).err]

\* ElGamalDecrypt(group, prikey, K, C)
ElGamalDecrypt(prikey, K, C) ==
    LET S == PointMul(K, prikey)
        M == PointSub(C, S)
    IN  [message |-> PointData(M).data, err |-> PointData(M).err]

NoEg ==
    [stage |-> "start", a |-> 0, A |-> 0, m |-> <<>>, r |-> 0, k |-> 0,
     K |-> 0, C |-> 0, remainder |-> <<>>, out |-> <<>>, err |-> NoError]

\* Alice's key pair: a := Pick(random.Stream), A := a*G
EgKeyGen(a) ==
    /\ eg.stage = "start"
    /\ eg' = [eg EXCEPT !.stage = "keyed", !.a = a, !.A = PointMul(Base, a)]
    /\ UNCHANGED <<pvssVars, kp, genArg, ids, key>>

EgEncrypt(m, r, k) ==
    /\ eg.stage = "keyed"
    /\ LET e == ElGamalEncrypt(eg.A, m, r, k)
       IN  eg' = [eg EXCEPT !.stage = "encrypted", !.m = m, !.r = r,
                    !.k = k, !.K = e.K, !.C = e.C,
                    !.remainder = e.remainder]
    /\ UNCHANGED <<pvssVars, kp, genArg, ids, key>>

EgDecrypt ==
    /\ eg.stage = "encrypted"
    /\ LET d == ElGamalDecrypt(eg.a, eg.K, eg.C)
       IN  eg' = [eg EXCEPT !.stage = "decrypted", !.out = d.message,
                    !.err = d.err]
    /\ UNCHANGED <<pvssVars, kp, genArg, ids, key>>

\* The other parts of the module at rest.
InitRest ==
    /\ kp = NilKeyPair
    /\ genArg = "nil"
    /\ ids = <<>>
    /\ key = NoKey
    /\ eg = NoEg

----------------------------------------------------------------------------
(* The protocol run: a dealer, NumTrustees trustees, the channel between   *)
(* them, and callers of the verification and recovery functions.           *)

NoRet ==
    [op |-> "none", i |-> 0, sel |-> <<>>, lens |-> <<0, 0, 0>>,
     err |-> NoError, K |-> <<>>, E |-> <<>>, D |-> <<>>, share |-> <<>>,
     point |-> <<>>, shares |-> <<>>, interp |-> FALSE, calls |-> 0]

\* sH_i = pubPoly.Eval(i).V
sHOf(i) == PubPolyEval(pubPoly[1], i).V

\* The stream position of the nonce trustee i draws in DecShare: after the
\* 2n+1 draws of the set-up and the dealer's t-1+n draws.
DecNonce(i) == Rnd(seed, 2 * NumTrustees + thr + i)

\* The sequence of the elements of the set T of positions, increasing
Increasing(T) ==
    CHOOSE q \in [1..Cardinality(T) -> T] :
        \A a, b \in 1..Cardinality(T) : a < b => q[a] < q[b]

\* The lists of positions a caller passes: any one or two positions of T
\* (repeats and either order included), or any subset of T in increasing
\* order.
Selections(T) ==
    {<<>>} \cup {<<a>> : a \in T} \cup {<<a, b>> : a, b \in T}
           \cup {Increasing(U) : U \in SUBSET T}

\* The lengths of the three slices of a call on the positions sel: all
\* Len(sel), or exactly one of them a position short.
Lengths(sel) ==
    LET L == Len(sel)
    IN  {<<L, L, L>>} \cup
        (IF L = 0 THEN {} ELSE {<<L - 1, L, L>>, <<L, L - 1, L>>,
                                <<L, L, L - 1>>})

\* The slices passed for the positions sel, cut to length l
ArgX(sel, l) == SubSeq([j \in 1..Len(sel) |-> X[sel[j]]], 1, l)
ArgSH(sel, l) == SubSeq([j \in 1..Len(sel) |-> sHOf(sel[j])], 1, l)
ArgEnc(sel, l) == SubSeq([j \in 1..Len(sel) |-> encShares[sel[j]]], 1, l)
ArgDec(sel, l) == SubSeq([j \in 1..Len(sel) |-> decShares[sel[j]][1]], 1, l)

Released == {i \in Trustees : decShares[i] # <<>>}

\* The set-up of a run: the stream, the trustees' key pairs, the base H.
InitPvss ==
    /\ seed \in Seeds
    /\ x = [i \in Trustees |-> NonZero(Rnd(seed, i - 1))]
    /\ X = [i \in Trustees |-> PointMul(Base, NonZero(Rnd(seed, i - 1)))]
    /\ H = NonZero(Rnd(seed, NumTrustees))
    /\ dealt = FALSE
    /\ secret = 0
    /\ thr = 0
    /\ encShares = <<>>
    /\ pubPoly = <<>>
    /\ tampered = 0
    /\ decShares = [i \in Trustees |-> <<>>]
    /\ forged = 0
    /\ pc = "idle"
    /\ ret = NoRet

\* The dealer shares the secret s with threshold t.
Deal(s, t) ==
    /\ pc = "idle"
    /\ ~dealt
    /\ LET r == EncShares(H, X, s, t, seed, NumTrustees + 1)
       IN  /\ r.err = NoError
           /\ encShares' = r.encShares
           /\ pubPoly' = r.pubPoly
    /\ dealt' = TRUE
    /\ secret' = s
    /\ thr' = t
    /\ UNCHANGED <<seed, x, X, H, tampered, decShares, forged, pc, ret,
                   restVars>>

\* The point of encrypted share k is replaced in transit; its proof is kept.
TamperEnc(k, P) ==
    /\ pc = "idle"
    /\ dealt
    /\ tampered = 0
    /\ P # encShares[k].S.V
    /\ encShares' = [encShares EXCEPT ![k].S.V = P]
    /\ tampered' = k
    /\ UNCHANGED <<seed, x, X, H, dealt, secret, thr, pubPoly, decShares,
                   forged, pc, ret, restVars>>

\* Every trustee runs DecShare on its own share and releases the result.
TrusteesDecrypt ==
    /\ pc = "idle"
    /\ dealt
    /\ Released = {}
    /\ decShares' = [i \in Trustees |->
                        DecShare(H, X[i], sHOf(i), x[i], encShares[i],
                                 DecNonce(i)).share]
    /\ UNCHANGED <<seed, x, X, H, dealt, secret, thr, encShares, pubPoly,
                   tampered, forged, pc, ret, restVars>>

\* The point of released share i is replaced; its proof is kept.
ForgeDec(i, P) ==
    /\ pc = "idle"
    /\ i \in Released
    /\ forged = 0
    /\ P # decShares[i][1].S.V
    /\ decShares' = [decShares EXCEPT ![i] = <<[@[1] EXCEPT !.S.V = P]>>]
    /\ forged' = i
    /\ UNCHANGED <<seed, x, X, H, dealt, secret, thr, encShares, pubPoly,
                   tampered, pc, ret, restVars>>

\* The frame of a call: only pc and ret change.
CallFrame ==
    /\ pc = "idle"
    /\ dealt
    /\ pc' = "called"
    /\ UNCHANGED <<seed, x, X, H, dealt, secret, thr, encShares, pubPoly,
                   tampered, decShares, forged, restVars>>

VerifyEncShareCall(i) ==
    /\ CallFrame
    /\ ret' = [NoRet EXCEPT !.op = "VerifyEncShare", !.i = i,
                 !.err = VerifyEncShare(H, X[i], sHOf(i), encShares[i])]

DecShareCall(i) ==
    /\ CallFrame
    /\ LET r == DecShare(H, X[i], sHOf(i), x[i], encShares[i], DecNonce(i))
       IN  ret' = [NoRet EXCEPT !.op = "DecShare", !.i = i, !.err = r.err,
                     !.share = r.share]

VerifyDecShareCall(i) ==
    /\ CallFrame
    /\ i \in Released
    /\ ret' = [NoRet EXCEPT !.op = "VerifyDecShare", !.i = i,
                 !.err = VerifyDecShare(Base, X[i], encShares[i],
                                        decShares[i][1])]

VerifyEncShareBatchCall(sel, lens) ==
    /\ CallFrame
    /\ LET r == VerifyEncShareBatch(H, ArgX(sel, lens[1]),
                    ArgSH(sel, lens[2]), ArgEnc(sel, lens[3]))
       IN  ret' = [NoRet EXCEPT !.op = "VerifyEncShareBatch", !.sel = sel,
                     !.lens = lens, !.err = r.err, !.K = r.K, !.E = r.E,
                     !.calls = r.calls]

\* A trustee decrypts a batch with its own private key: trustee i.
DecShareBatchCall(i, sel, lens) ==
    /\ CallFrame
    /\ LET r == DecShareBatch(H, ArgX(sel, lens[1]), ArgSH(sel, lens[2]),
                    x[i], ArgEnc(sel, lens[3]), seed,
                    2 * NumTrustees + thr + 1)
       IN  ret' = [NoRet EXCEPT !.op = "DecShareBatch", !.i = i,
                     !.sel = sel, !.lens = lens, !.err = r.err, !.K = r.K,
                     !.E = r.E, !.D = r.D, !.calls = r.calls]

VerifyDecShareBatchCall(sel, lens) ==
    /\ CallFrame
    /\ LET r == VerifyDecShareBatch(Base, ArgX(sel, lens[1]),
                    ArgEnc(sel, lens[2]), ArgDec(sel, lens[3]))
       IN  ret' = [NoRet EXCEPT !.op = "VerifyDecShareBatch", !.sel = sel,
                     !.lens = lens, !.err = r.err, !.D = r.D,
                     !.calls = r.calls]

RecoverSecretCall(sel, lens) ==
    /\ CallFrame
    /\ LET r == RecoverSecret(Base, ArgX(sel, lens[1]), ArgEnc(sel, lens[2]),
                    ArgDec(sel, lens[3]), thr, NumTrustees)
       IN  ret' = [NoRet EXCEPT !.op = "RecoverSecret", !.sel = sel,
                     !.lens = lens, !.err = r.err, !.point = r.point,
                     !.shares = r.shares, !.interp = r.interp,
                     !.calls = r.calls]

\* The caller takes the result.
Return ==
    /\ pc = "called"
    /\ pc' = "idle"
    /\ ret' = NoRet
    /\ UNCHANGED <<seed, x, X, H, dealt, secret, thr, encShares, pubPoly,
                   tampered, decShares, forged, restVars>>

Init == InitPvss /\ InitRest

\* Dealing, decryption, release and recovery over an honest channel.
Next ==
    \/ \E s \in Scalars, t \in Trustees : Deal(s, t)
    \/ TrusteesDecrypt
    \/ \E i \in Trustees, P \in Points : ForgeDec(i, P)
    \/ \E i \in Trustees : VerifyEncShareCall(i)
    \/ \E i \in Trustees : VerifyDecShareCall(i)
    \/ \E sel \in Selections(Released) : \E lens \in Lengths(sel) :
           VerifyDecShareBatchCall(sel, lens)
    \/ \E sel \in Selections(Released) : \E lens \in Lengths(sel) :
           RecoverSecretCall(sel, lens)
    \/ Return

Spec == Init /\ [][Next]_vars

\* Encrypted shares on a channel that alters one of them: verification and
\* decryption of what arrives.
NextBatch ==
    \/ \E s \in Scalars, t \in Trustees : Deal(s, t)
    \/ \E k \in Trustees, P \in Points : TamperEnc(k, P)
    \/ \E i \in Trustees : VerifyEncShareCall(i)
    \/ \E i \in Trustees : DecShareCall(i)
    \/ \E sel \in Selections(Trustees) : \E lens \in Lengths(sel) :
           VerifyEncShareBatchCall(sel, lens)
    \/ \E sel \in Selections(Trustees) : \E lens \in Lengths(sel) :
           DecShareBatchCall(IF sel = <<>> THEN 1 ELSE sel[1], sel, lens)
    \/ Return

SpecBatch == Init /\ [][NextBatch]_vars

\* Equal-length inputs over an honest channel, then the length checks of
\* the four batch functions.
NextLengths ==
    \/ \E s \in Scalars, t \in Trustees : Deal(s, t)
    \/ TrusteesDecrypt
    \/ \E sel \in Selections(Trustees) : \E lens \in Lengths(sel) :
           VerifyEncShareBatchCall(sel, lens)
    \/ \E sel \in Selections(Trustees) : \E lens \in Lengths(sel) :
           DecShareBatchCall(IF sel = <<>> THEN 1 ELSE sel[1], sel, lens)
    \/ \E sel \in Selections(Released) : \E lens \in Lengths(sel) :
           VerifyDecShareBatchCall(sel, lens)
    \/ \E sel \in Selections(Released) : \E lens \in Lengths(sel) :
           RecoverSecretCall(sel, lens)
    \/ Return

SpecLengths == Init /\ [][NextLengths]_vars

----------------------------------------------------------------------------
(* Properties of the protocol run.                                         *)

Called(op) == pc = "called" /\ ret.op = op

EqualLens == ret.lens[1] = ret.lens[2] /\ ret.lens[2] = ret.lens[3]

\* The positions of ret.sel are pairwise different
DistinctSel ==
    \A a, b \in 1..Len(ret.sel) : ret.sel[a] = ret.sel[b] => a = b

\* No altered decrypted share is among the positions of ret.sel
HonestSel == \A a \in 1..Len(ret.sel) : ret.sel[a] # forged

\* C1: EncShares, then DecShare by every trustee, then RecoverSecret on any
\* t of the decrypted shares (with their keys and encrypted shares) returns
\* the point secret*G and no error, whichever t trustees are chosen.
ThmC1 ==
    (/\ Called("RecoverSecret")
     /\ EqualLens
     /\ Len(ret.sel) = thr
     /\ DistinctSel
     /\ HonestSel)
    => /\ ret.err = NoError
       /\ ret.point = <<PointMul(Base, secret)>>

WitC1 ==
    /\ Called("RecoverSecret")
    /\ EqualLens
    /\ Len(ret.sel) = thr
    /\ thr = 2
    /\ ret.sel = <<3, 1>>
    /\ secret = 5
    /\ ret.err = NoError
    /\ ret.point = <<5>>

\* C2: every encrypted share returned by EncShares passes VerifyEncShare
\* against the commitment evaluated at its index, and every decrypted share
\* returned by DecShare passes VerifyDecShare.
ThmC2 ==
    /\ (Called("VerifyEncShare") /\ tampered = 0) => ret.err = NoError
    /\ (Called("VerifyDecShare") /\ tampered = 0 /\ forged # ret.i)
           => ret.err = NoError

WitC2 ==
    /\ Called("VerifyDecShare")
    /\ forged # ret.i
    /\ thr = 3
    /\ decShares[ret.i][1].S.V # Identity
    /\ ret.err = NoError

\* The number of positions of the call whose decrypted share passes
\* VerifyDecShare against the key and encrypted share of the same position
NumValid ==
    Cardinality({a \in 1..Len(ret.sel) :
        VerifyDecShare(Base, X[ret.sel[a]], encShares[ret.sel[a]],
                       decShares[ret.sel[a]][1]) = NoError})

\* C3: when fewer than t of the decrypted shares given to RecoverSecret
\* (slices of equal length) pass VerifyDecShare, RecoverSecret returns
\* TooFewShares and no point and does not reach the interpolation.
ThmC3 ==
    (Called("RecoverSecret") /\ EqualLens /\ NumValid < thr)
    => /\ ret.err = errorTooFewShares
       /\ ret.point = <<>>
       /\ ~ret.interp

WitC3 ==
    /\ Called("RecoverSecret")
    /\ EqualLens
    /\ thr = 3
    /\ Len(ret.sel) = 3
    /\ NumValid = 2
    /\ ret.err = errorTooFewShares

\* The positions of a call on equal-length slices at which the single-share
\* verification of (X[j], sH[j], encShares[j]) succeeds, in increasing order
GoodEnc ==
    LET L == Len(ret.sel)
    IN  Increasing({j \in 1..L :
            VerifyEncShare(H, ArgX(ret.sel, L)[j], ArgSH(ret.sel, L)[j],
                           ArgEnc(ret.sel, L)[j]) = NoError})

\* The same for DecShare with the caller's private key (the nonce does not
\* decide success)
GoodDec ==
    LET L == Len(ret.sel)
    IN  Increasing({j \in 1..L :
            DecShare(H, ArgX(ret.sel, L)[j], ArgSH(ret.sel, L)[j],
                     x[ret.i], ArgEnc(ret.sel, L)[j], 0).err = NoError})

\* C4: on equal-length inputs VerifyEncShareBatch returns K and E (and
\* DecShareBatch K, E and D) of one length, entry j of each from the same
\* input position, listing exactly the positions where the single-share
\* operation succeeds, in increasing input order, and returns no error.
ThmC4 ==
    /\ (Called("VerifyEncShareBatch") /\ EqualLens) =>
           LET L == Len(ret.sel)
           IN  /\ ret.err = NoError
               /\ Len(ret.K) = Len(GoodEnc)
               /\ Len(ret.E) = Len(GoodEnc)
               /\ \A j \in 1..Len(GoodEnc) :
                      /\ ret.K[j] = ArgX(ret.sel, L)[GoodEnc[j]]
                      /\ ret.E[j] = ArgEnc(ret.sel, L)[GoodEnc[j]]
    /\ (Called("DecShareBatch") /\ EqualLens) =>
           LET L == Len(ret.sel)
           IN  /\ ret.err = NoError
               /\ Len(ret.K) = Len(GoodDec)
               /\ Len(ret.E) = Len(GoodDec)
               /\ Len(ret.D) = Len(GoodDec)
               /\ \A j \in 1..Len(GoodDec) :
                      /\ ret.K[j] = ArgX(ret.sel, L)[GoodDec[j]]
                      /\ ret.E[j] = ArgEnc(ret.sel, L)[GoodDec[j]]
                      /\ ret.D[j].S.I = ret.E[j].S.I
                      /\ ret.D[j].S.V =
                             PointMul(ret.E[j].S.V, ScalarInv(x[ret.i]))

WitC4 ==
    /\ Called("VerifyEncShareBatch")
    /\ EqualLens
    /\ tampered = 2
    /\ ret.sel = <<1, 2, 3>>
    /\ Len(ret.K) = 2
    /\ ret.E[2].S.I = 3

\* C5: the four batch functions return DifferentLengths, with every result
\* nil, whenever their three slices are not of one length, before any share
\* is verified or decrypted.
ThmC5 ==
    (/\ pc = "called"
     /\ ret.op \in {"VerifyEncShareBatch", "DecShareBatch",
                    "VerifyDecShareBatch", "RecoverSecret"}
     /\ ~EqualLens)
    => /\ ret.err = errorDifferentLengths
       /\ ret.K = <<>>
       /\ ret.E = <<>>
       /\ ret.D = <<>>
       /\ ret.point = <<>>
       /\ ret.calls = 0

WitC5 ==
    /\ Called("DecShareBatch")
    /\ ret.lens = <<3, 3, 2>>
    /\ ret.err = errorDifferentLengths

\* C6: DecShare verifies the encryption proof first: when VerifyEncShare
\* fails it returns EncVerification and a nil share; when it succeeds the
\* share has the index of encShare and the point x^-1 * encShare.S.V.
ThmC6 ==
    Called("DecShare") =>
        LET e == encShares[ret.i]
        IN  IF VerifyEncShare(H, X[ret.i], sHOf(ret.i), e) # NoError
            THEN /\ ret.err = errorEncVerification
                 /\ ret.share = <<>>
            ELSE /\ ret.err = NoError
                 /\ Len(ret.share) = 1
                 /\ ret.share[1].S.I = e.S.I
                 /\ ret.share[1].S.V = PointMul(e.S.V, ScalarInv(x[ret.i]))

WitC6 ==
    /\ Called("DecShare")
    /\ tampered = ret.i
    /\ ret.err = errorEncVerification
    /\ ret.share = <<>>

\* Position j of the n-1 entries left when position k is dropped from 1..n
Skip(k, j) == IF j < k THEN j ELSE j + 1

\* C7: when one encrypted share k of an EncShares output has its point
\* replaced by another point and its proof kept, VerifyEncShare fails for
\* position k with EncVerification and VerifyEncShareBatch on the n shares
\* returns exactly the other n-1 (key, share) pairs, in order.
ThmC7 ==
    tampered # 0 =>
        /\ (Called("VerifyEncShare") /\ ret.i = tampered)
               => ret.err = errorEncVerification
        /\ (/\ Called("VerifyEncShareBatch")
            /\ ret.sel = Increasing(Trustees)
            /\ ret.lens = <<NumTrustees, NumTrustees, NumTrustees>>)
               => /\ ret.err = NoError
                  /\ Len(ret.K) = NumTrustees - 1
                  /\ Len(ret.E) = NumTrustees - 1
                  /\ \A j \in 1..(NumTrustees - 1) :
                         /\ ret.K[j] = X[Skip(tampered, j)]
                         /\ ret.E[j] = encShares[Skip(tampered, j)]
                         /\ ret.E[j].S.I = Skip(tampered, j)

WitC7 ==
    /\ Called("VerifyEncShareBatch")
    /\ tampered = 3
    /\ encShares[3].S.V = H
    /\ ret.sel = Increasing(Trustees)
    /\ ret.lens = <<NumTrustees, NumTrustees, NumTrustees>>
    /\ Len(ret.E) = NumTrustees - 1

----------------------------------------------------------------------------
(* The other specifications: the protocol at rest in its set-up state.     *)

IdlePvss ==
    /\ seed = 0
    /\ x = [i \in Trustees |-> NonZero(Rnd(0, i - 1))]
    /\ X = [i \in Trustees |-> PointMul(Base, NonZero(Rnd(0, i - 1)))]
    /\ H = NonZero(Rnd(0, NumTrustees))
    /\ dealt = FALSE
    /\ secret = 0
    /\ thr = 0
    /\ encShares = <<>>
    /\ pubPoly = <<>>
    /\ tampered = 0
    /\ decShares = [i \in Trustees |-> <<>>]
    /\ forged = 0
    /\ pc = "idle"
    /\ ret = NoRet

InitIdle == IdlePvss /\ InitRest

\* NewKey of the two Ed25519 suites on any stream.
NextNewKey ==
    \/ \E d \in ByteStrings : NewKeyEdwards25519Call(d)
    \/ \E r \in ByteStrings : NewKeyCurve25519Call(r)

SpecNewKey == InitIdle /\ [][NextNewKey]_vars

\* Key pairs made, made again and fingerprinted.
NextKey ==
    \/ \E suite \in Suites, r \in Scalars : NewKeyPairCall(suite, r)
    \/ \E suite \in Suites, r \in Scalars : GenCall(suite, r)
    \/ PubIdCall

SpecKey == InitIdle /\ [][NextKey]_vars

\* The ElGamal example with any key, message and stream.
NextElGamal ==
    \/ \E a \in Scalars : EgKeyGen(a)
    \/ \E m \in Messages, r \in Scalars, k \in Scalars : EgEncrypt(m, r, k)
    \/ EgDecrypt

SpecElGamal == InitIdle /\ [][NextElGamal]_vars

\* The 32-byte encoding b has the Ed25519 format: the low three bits of
\* b[0] clear, bit 7 of b[31] clear and bit 6 set (bytes are numbered from
\* 1 here)
Clamped(b) == BitAnd(b[1], 248) = b[1] /\ BitAnd(b[32], 192) = 64

\* C8: for every stream the scalar returned by NewKey of the Ed25519 suite
\* has a 32-byte encoding b with b[0] & 0xf8 = b[0] and b[31] & 0xc0 = 0x40.
CexC8 == key.suite # "none" => Clamped(key.secret)

\* C8, for the edwards25519 suite alone
CexC8Edwards == key.suite = "edwards25519" => Clamped(key.secret)

\* C9: after NewKeyPair or Gen, Public = G * Secret and Suite is the suite
\* given; PubId leaves the key pair as it is, and all its calls on one key
\* pair return the same string.
ThmC9 ==
    kp.Suite # "nil" =>
        /\ kp.Public = <<PointMul(Base, kp.Secret[1])>>
        /\ kp.Suite = genArg
        /\ \A a \in 1..Len(ids) : ids[a] = ids[1]

WitC9 ==
    /\ kp.Suite = "edwards25519"
    /\ kp.Secret = <<3>>
    /\ kp.Public = <<3>>
    /\ Len(ids) = MaxPubIds

\* C10: ElGamalDecrypt with the private key a, applied to the ciphertext
\* ElGamalEncrypt made with A = a*G of a message that fits in one point,
\* returns that message and no error, C - a*K being the point the message
\* was embedded in.
ThmC10 ==
    (eg.stage = "decrypted" /\ Len(eg.m) <= EmbedLen) =>
        /\ eg.err = NoError
        /\ eg.out = eg.m
        /\ PointSub(eg.C, PointMul(eg.K, eg.a)) = PointPick(eg.m, eg.r).point

WitC10 ==
    /\ eg.stage = "decrypted"
    /\ eg.m = <<1>>
    /\ eg.a = 3
    /\ eg.k = 5
    /\ eg.out = <<1>>
    /\ eg.err = NoError

----------------------------------------------------------------------------
(* Recovery from what callers collect: repeated and altered shares.        *)

MaxSel == 3

\* The lists of positions a caller of RecoverSecret passes: every sequence
\* of at most MaxSel positions of T, repeats and any order included.
RECURSIVE SeqsUpTo(_, _)
SeqsUpTo(T, l) ==
    IF l = 0 THEN {<<>>}
    ELSE LET shorter == SeqsUpTo(T, l - 1)
         IN  shorter \cup {Append(q, a) : q \in {r \in shorter : Len(r) = l - 1},
                                          a \in T}

Collected(T) == SeqsUpTo(T, MaxSel)

\* Dealing, decryption, one altered decrypted share, and recovery from any
\* collection of the released shares (slices of equal length).
NextRecover ==
    \/ \E s \in Scalars, t \in Trustees : Deal(s, t)
    \/ TrusteesDecrypt
    \/ \E i \in Trustees, P \in Points : ForgeDec(i, P)
    \/ \E sel \in Collected(Released) :
           RecoverSecretCall(sel, <<Len(sel), Len(sel), Len(sel)>>)
    \/ Return

SpecRecover == Init /\ [][NextRecover]_vars

\* The positions of the call whose decrypted share passes VerifyDecShare
\* against the key and encrypted share of the same position
ValidPos ==
    {a \in 1..Len(ret.sel) :
        VerifyDecShare(Base, X[ret.sel[a]], encShares[ret.sel[a]],
                       decShares[ret.sel[a]][1]) = NoError}

\* The share indices present among the valid positions
ValidIndices == {decShares[ret.sel[a]][1].S.I : a \in ValidPos}

\* The PubShares of the valid positions, in input order
ValidShares ==
    LET pos == Increasing(ValidPos)
    IN  [j \in 1..Len(pos) |-> decShares[ret.sel[pos[j]]][1].S]

\* The positions whose decrypted share carries the decryption x^-1 * S of
\* the encrypted share of the same position
GenuinePos ==
    {a \in 1..Len(ret.sel) :
        decShares[ret.sel[a]][1].S.V =
            PointMul(encShares[ret.sel[a]].S.V, ScalarInv(x[ret.sel[a]]))}

\* C11: when all decrypted shares given to RecoverSecret verify but they
\* carry fewer than t distinct indices, RecoverSecret returns TooFewShares
\* and no point, also when t or more shares were given.
ThmC11 ==
    (/\ Called("RecoverSecret")
     /\ EqualLens
     /\ ValidPos = 1..Len(ret.sel)
     /\ Cardinality(ValidIndices) < thr)
    => /\ ret.err = errorTooFewShares
       /\ ret.point = <<>>

WitC11 ==
    /\ Called("RecoverSecret")
    /\ thr = 2
    /\ ret.sel = <<2, 2, 2>>
    /\ ValidPos = {1, 2, 3}
    /\ ValidIndices = {decShares[2][1].S.I}
    /\ ret.interp
    /\ Len(ret.shares) = 3
    /\ ret.err = errorTooFewShares
    /\ ret.point = <<>>

====
